---- MODULE Spec2Model ----
(***************************************************************************)
(* ctapipe-stats-calculation: StatisticsCalculatorTool (setup / start /    *)
(* finish) of src/ctapipe/tools/stats_calculation.py, together with the    *)
(* statistics engine it drives (PixelStatisticsCalculator.first_pass and   *)
(* second_pass, the chunk windower, the pixel aggregator and the validity  *)
(* classifier) and the table writer.  The tool is translated from its      *)
(* source; the engine and the writer are not part of the source tree and   *)
(* are modelled from their documented contracts.                           *)
(***************************************************************************)
EXTENDS Integers, Sequences, FiniteSets, TLC

\* ------------------------------------------------------------------ bounds
\* Total number of events held by the input file, over all telescopes.
MaxEvents == 3
\* Largest configured chunk length.
MaxChunkLength == 2
\* Events of the one table of the classifier's runs.
MaxClassifierEvents == 2

\* --------------------------------------------------------------- constants
\* Python's None, for chunk_shift and allowed_tels ("is not None", line 134).
None == -1
\* A missing reading (NaN) of one pixel in one event.
NaN == -1
\* Telescope ids of the subarray stored in the input file.
Tels == {1, 2}
\* Pixels of a camera image.
Pixels == {1, 2}
\* Readings an image pixel can hold: nominal and extreme.
Readings == {0, 9}
\* The aggregator's bound on a pixel's mean, above which the pixel is an outlier.
OutlierBound == 4
\* The classifier's threshold on the fraction of outlier pixels: Num / Den.
ThresholdNum == 1
ThresholdDen == 2
\* The classifier's minimum number of usable events in a chunk.
MinEvents == 1
\* The files the command line can name: the input, and the output, which may
\* be given the input's name.
InputPaths == {"input.dl1.h5"}
OutputPaths == {"input.dl1.h5", "monitoring.h5"}

VARIABLES
    \* configuration traits (lines 42-77) and the calculator's configuration
    input_url, output_path, overwrite, allowed_tels, chunk_length, chunk_shift,
    \* the build's tie order of Table.sort for equal keys
    sort_kind,
    \* whether the engine's chunk computations run on parallel workers
    parallel,
    \* the files: the input's event tables and the output's table nodes
    input_file, output_file,
    \* the tool: position, exception that ended it, what setup() loaded
    pc, error, subarray, dl1_tables,
    \* start(): the telescope of the running iteration, the telescopes whose
    \* iteration has finished (in the order taken), the loop's locals
    tel_id, iterated, aggregated_stats, aggregated_stats_secondpass,
    \* the engine's running pass: its windows and the records computed so far
    work,
    \* the log's "Skipping second pass" events
    log,
    \* history: per telescope, what each call returned and how often it was made
    hist

vars == <<input_url, output_path, overwrite, allowed_tels, chunk_length, chunk_shift,
          sort_kind, parallel, input_file, output_file, pc, error, subarray,
          dl1_tables, tel_id, iterated, aggregated_stats,
          aggregated_stats_secondpass, work, log, hist>>

config == <<input_url, output_path, overwrite, allowed_tels, chunk_length,
            chunk_shift, sort_kind, parallel, input_file>>

\* ----------------------------------------------------------------- helpers
Min(a, b) == IF a < b THEN a ELSE b

RECURSIVE SumSeq(_)
SumSeq(s) == IF s = <<>> THEN 0 ELSE Head(s) + SumSeq(Tail(s))

\* ------------------------------------------------------- Chunk Windower
\* Mutant: a windower that drops the last, shorter window.
RECURSIVE WindowsDropPartial(_, _, _)
WindowsDropPartial(L, N, from) ==
    IF from + N > L THEN <<>>
    ELSE <<[start |-> from, length |-> N]>> \o WindowsDropPartial(L, N, from + N)

\* The windows of a table of L events for chunk length N, starting at offset
\* `from`: window i starts at from + i*N, the last one may be shorter.
RECURSIVE Windows(_, _, _)
Windows(L, N, from) ==
    IF from >= L THEN <<>>
    ELSE <<[start |-> from, length |-> Min(N, L - from)]>> \o Windows(L, N, from + N)

\* ------------------------------------------------------- Pixel Aggregator
\* The usable (non-NaN) readings of pixel p over the events of a chunk.
RECURSIVE UsableReadings(_, _)
UsableReadings(events, p) ==
    IF events = <<>> THEN <<>>
    ELSE (IF Head(events).image[p] = NaN THEN <<>> ELSE <<Head(events).image[p]>>)
         \o UsableReadings(Tail(events), p)

\* An event is usable when at least one of its pixels holds a reading.
UsableEvents(events) ==
    Cardinality({i \in 1..Len(events) : \E p \in Pixels : events[i].image[p] # NaN})

\* Mean of pixel p over the chunk, NaN readings excluded (NaN when none is left).
PixelMean(events, p) ==
    LET r == UsableReadings(events, p)
    IN  IF r = <<>> THEN NaN ELSE SumSeq(r) \div Len(r)

\* The outlier mask: a pixel whose mean lies above the bound.
PixelOutlier(events, p) ==
    LET r == UsableReadings(events, p)
    IN  r # <<>> /\ SumSeq(r) > OutlierBound * Len(r)

\* ------------------------------------------------------ Validity Classifier
\* Mutant: a chunk is invalid as soon as the fraction reaches the threshold.
IsValidNotStrict(outlier_mask, n_usable) ==
    /\ ~ (Cardinality({p \in Pixels : outlier_mask[p]}) * ThresholdDen
            >= ThresholdNum * Cardinality(Pixels))
    /\ n_usable >= MinEvents

\* Invalid when the fraction of outlier pixels exceeds the threshold or the
\* chunk has fewer usable events than the minimum.
IsValid(outlier_mask, n_usable) ==
    /\ ~ (Cardinality({p \in Pixels : outlier_mask[p]}) * ThresholdDen
            > ThresholdNum * Cardinality(Pixels))
    /\ n_usable >= MinEvents

\* The AggregatedStatistics record of one window of a table.
AggregateChunk(table, w, pass) ==
    LET events == SubSeq(table, w.start + 1, w.start + w.length)
        mask == [p \in Pixels |-> PixelOutlier(events, p)]
    IN  [time_start |-> events[1].time,
         time_end   |-> events[Len(events)].time,
         mean       |-> [p \in Pixels |-> PixelMean(events, p)],
         outlier    |-> mask,
         is_valid   |-> IsValid(mask, UsableEvents(events)),
         pass       |-> pass]

\* ------------------------------------------ PixelStatisticsCalculator
\* first_pass: the windower with shift 0 over the whole table.
FirstPassWindows(table) == Windows(Len(table), chunk_length, 0)

\* Whether window w shares an event index with first-pass chunk i.
Overlaps(w, i, L) ==
    LET lo == (i - 1) * chunk_length
        hi == Min(i * chunk_length, L)
    IN  w.start < hi /\ lo < w.start + w.length

\* The windowing of a table of L events whose chunk boundaries are offset by
\* `shift` events against the unshifted one: the events before the first
\* boundary form a window of their own, so that the windows cover the table.
ShiftedWindows(L, N, shift) ==
    (IF shift > 0 /\ L > 0
     THEN <<[start |-> 0, length |-> Min(shift, L)]>> ELSE <<>>)
    \o Windows(L, N, shift)

\* second_pass: the windower with the configured shift, restricted to the
\* windows that overlap a chunk the first pass marked invalid, which cover at
\* least the invalid chunks.
SecondPassWindows(table, valid_chunks) ==
    LET L == Len(table)
        Hit(w) == \E i \in 1..Len(valid_chunks) :
                      ~ valid_chunks[i] /\ Overlaps(w, i, L)
    IN  SelectSeq(ShiftedWindows(L, chunk_length, chunk_shift), Hit)

\* The records of a finished pass, in window order.
Collect(w) == [i \in 1..Len(w.windows) |-> w.results[i]]

NoWork == [pass |-> 0, windows |-> <<>>, results |-> <<>>]

\* The windows of the running pass whose record is still to be computed.
Pending(w) == (1..Len(w.windows)) \ DOMAIN w.results

\* The windows a worker may finish next: any pending one on parallel workers,
\* the first pending one when the pass runs chunk by chunk.
Schedulable(w) ==
    IF parallel THEN Pending(w)
    ELSE {c \in Pending(w) : \A d \in Pending(w) : c <= d}

\* ------------------------------------------------------- astropy.table
vstack(a, b) == a \o b

\* Insert record r into the sorted sequence s by time_start; `after` puts it
\* behind the records of equal key, otherwise in front of them.
RECURSIVE Insert(_, _, _)
Insert(s, r, after) ==
    IF s = <<>> THEN <<r>>
    ELSE IF Head(s).time_start < r.time_start
            \/ (after /\ Head(s).time_start = r.time_start)
         THEN <<Head(s)>> \o Insert(Tail(s), r, after)
         ELSE <<r>> \o s

RECURSIVE SortFrom(_, _, _)
SortFrom(s, acc, after) ==
    IF s = <<>> THEN acc ELSE SortFrom(Tail(s), Insert(acc, Head(s), after), after)

\* Table.sort(["time_start"]): ascending by time_start; the order of records
\* of equal time_start is the sort algorithm's.
SortByTimeStart(s) == SortFrom(s, <<>>, sort_kind = "stable")

\* ------------------------------------------------------------ write_table
NoNode == [exists |-> FALSE, rows |-> <<>>, by |-> "nobody"]
OldNode == [exists |-> TRUE, rows |-> <<>>, by |-> "earlier run"]

\* The decimal digits of n, most significant first.
RECURSIVE Decimal(_)
Decimal(n) == IF n < 10 THEN <<n>> ELSE Append(Decimal(n \div 10), n % 10)

\* f"{tel_id:03d}": the decimal digits, padded with zeros on the left to three.
ZeroPad3(n) ==
    LET d == Decimal(n)
    IN  IF Len(d) >= 3 THEN d ELSE [i \in 1..(3 - Len(d)) |-> 0] \o d

\* Lines 67-71: the default of the trait.
output_column_name == "statistics"

\* Mutant: the node's name lacks the telescope's id.
NodeNameShared(t) ==
    <<"/dl1/monitoring/telescope/", output_column_name, "/tel_">>

\* The node a telescope's table is written to (line 159):
\* /dl1/monitoring/telescope/<output_column_name>/tel_<id>.
NodeName(t) ==
    <<"/dl1/monitoring/telescope/", output_column_name, "/tel_">> \o ZeroPad3(t)

\* ------------------------------------------------------------------- Init
NoHist == [first_pass |-> 0, second_pass |-> 0, merges |-> 0, writes |-> 0,
           returned |-> 0, stats_pass1 |-> <<>>, stats_pass2 |-> <<>>,
           raised |-> FALSE]

\* Images of the coordinator's runs: every pixel nominal or every pixel extreme.
UniformImages == {[p \in Pixels |-> r] : r \in Readings}

TablesOfLen(n, images) ==
    {[i \in 1..n |-> [time |-> i, image |-> f[i]]] : f \in [1..n -> images]}

Tables(maxlen, images) == UNION {TablesOfLen(n, images) : n \in 0..maxlen}

RECURSIVE TotalEvents(_, _)
TotalEvents(file, tels) ==
    IF tels = {} THEN 0
    ELSE LET t == CHOOSE x \in tels : TRUE
         IN  Len(file[t]) + TotalEvents(file, tels \ {t})

InputFiles ==
    {f \in [Tels -> Tables(MaxEvents, UniformImages)] :
        TotalEvents(f, Tels) <= MaxEvents}

AllowedTels == {[none |-> TRUE, ids |-> {}]}
               \cup {[none |-> FALSE, ids |-> S] : S \in SUBSET Tels}

ProgramInit ==
    /\ pc = "setup"
    /\ error = "none"
    /\ subarray = [loaded |-> FALSE, tel_ids |-> {}]
    /\ dl1_tables = <<>>
    /\ tel_id = None
    /\ iterated = <<>>
    /\ aggregated_stats = <<>>
    /\ aggregated_stats_secondpass = <<>>
    /\ work = NoWork
    /\ log = <<>>
    /\ hist = [t \in Tels |-> NoHist]

Init ==
    /\ input_url \in InputPaths
    /\ output_path \in OutputPaths
    /\ overwrite \in BOOLEAN
    /\ allowed_tels \in AllowedTels
    /\ chunk_length \in 1..MaxChunkLength
    /\ chunk_shift \in {None} \cup 0..(chunk_length - 1)
    /\ sort_kind \in {"stable", "unstable"}
    /\ parallel \in BOOLEAN
    /\ input_file \in InputFiles
    /\ \E old \in BOOLEAN :
          output_file = [n \in {NodeName(t) : t \in Tels} |->
                            IF old THEN OldNode ELSE NoNode]
    /\ ProgramInit

\* ------------------------------------------------------------- Tool.run
\* An exception leaves setup() or start(): the tool exits with the error.
Abort(exc) ==
    /\ pc' = "exited"
    /\ error' = exc

\* ------------------------------------------------------------------ setup
\* Mutant: setup() without the check of lines 95-98.
SetupCheckPathsMissing ==
    /\ pc = "setup"
    /\ pc' = "setup_load"
    /\ UNCHANGED <<config, output_file, error, subarray, dl1_tables, tel_id,
                   iterated, aggregated_stats, aggregated_stats_secondpass, work,
                   log, hist>>

\* Lines 94-98: the input and the output must not be the same file.
SetupCheckPaths ==
    /\ pc = "setup"
    /\ IF input_url = output_path
       THEN Abort("ToolConfigurationError")
       ELSE pc' = "setup_load" /\ error' = error
    /\ UNCHANGED <<config, output_file, subarray, dl1_tables, tel_id, iterated,
                   aggregated_stats, aggregated_stats_secondpass, work, log, hist>>

\* Lines 100-122: load the subarray, build the calculator, read the tables of
\* the subarray's telescopes or of the allowed ones.
SetupLoad ==
    /\ pc = "setup_load"
    /\ subarray' = [loaded |-> TRUE, tel_ids |-> Tels]
    /\ LET tel_ids == IF allowed_tels.none THEN Tels ELSE allowed_tels.ids
       IN  dl1_tables' = [t \in tel_ids |-> input_file[t]]
    /\ pc' = "start"
    /\ UNCHANGED <<config, output_file, error, tel_id, iterated, aggregated_stats,
                   aggregated_stats_secondpass, work, log, hist>>

\* ------------------------------------------------------------------ start
\* The telescopes whose iteration has finished.
Done(order) == {order[i] : i \in 1..Len(order)}

\* Mutant: the windower refuses a chunk length of one as well.
InvalidChunkLengthOne(N) == N <= 1

\* The chunk lengths the windower refuses.
InvalidChunkLength(N) == N <= 0

\* Lines 126-132: the loop takes the next telescope and calls first_pass, whose
\* windower refuses the configured chunk length.
WindowerRaises(t) ==
    /\ pc = "start"
    /\ t \in DOMAIN dl1_tables
    /\ t \notin Done(iterated)
    /\ InvalidChunkLength(chunk_length)
    /\ tel_id' = t
    /\ Abort("ConfigurationError")
    /\ UNCHANGED <<config, output_file, subarray, dl1_tables, iterated,
                   aggregated_stats, aggregated_stats_secondpass, work, log,
                   hist>>

\* Lines 126-132: the loop takes the next telescope and calls first_pass.
CallFirstPass(t) ==
    /\ pc = "start"
    /\ t \in DOMAIN dl1_tables
    /\ t \notin Done(iterated)
    /\ ~ InvalidChunkLength(chunk_length)
    /\ tel_id' = t
    /\ work' = [pass |-> 1, windows |-> FirstPassWindows(dl1_tables[t]),
                results |-> <<>>]
    /\ hist' = [hist EXCEPT ![t].first_pass = @ + 1]
    /\ pc' = "first_pass"
    /\ UNCHANGED <<config, output_file, error, subarray, dl1_tables, iterated,
                   aggregated_stats, aggregated_stats_secondpass, log>>

\* Mutant: the records of a pass are kept in the order of completion.
ChunkDoneAppending(c) ==
    /\ pc \in {"first_pass", "second_pass"}
    /\ c \in Schedulable(work)
    /\ work' = [work EXCEPT !.results =
                   ((Cardinality(DOMAIN work.results) + 1)
                       :> AggregateChunk(dl1_tables[tel_id], work.windows[c], work.pass))
                   @@ @]
    /\ UNCHANGED <<config, output_file, pc, error, subarray, dl1_tables, tel_id,
                   iterated, aggregated_stats, aggregated_stats_secondpass, log,
                   hist>>

\* The engine aggregates and classifies one window of the running pass.
ChunkDone(c) ==
    /\ pc \in {"first_pass", "second_pass"}
    /\ c \in Schedulable(work)
    /\ work' = [work EXCEPT !.results =
                   (c :> AggregateChunk(dl1_tables[tel_id], work.windows[c], work.pass))
                   @@ @]
    /\ UNCHANGED <<config, output_file, pc, error, subarray, dl1_tables, tel_id,
                   iterated, aggregated_stats, aggregated_stats_secondpass, log,
                   hist>>

\* Mutant: the failure is caught and start() writes what it has.
AggregatorRaisesCaught ==
    /\ pc \in {"first_pass", "second_pass"}
    /\ Pending(work) # {}
    /\ hist' = [hist EXCEPT ![tel_id].raised = TRUE]
    /\ work' = NoWork
    /\ pc' = "write"
    /\ UNCHANGED <<config, output_file, error, subarray, dl1_tables, tel_id,
                   iterated, aggregated_stats, aggregated_stats_secondpass, log>>

\* The engine finds the input of a window malformed: the error leaves
\* first_pass or second_pass, and start() with it.
AggregatorRaises ==
    /\ pc \in {"first_pass", "second_pass"}
    /\ Pending(work) # {}
    /\ Abort("DataError")
    /\ hist' = [hist EXCEPT ![tel_id].raised = TRUE]
    /\ UNCHANGED <<config, output_file, subarray, dl1_tables, tel_id, iterated,
                   aggregated_stats, aggregated_stats_secondpass, work, log>>

\* Mutant: the records are appended to what the previous iteration left.
FirstPassReturnsAppending ==
    /\ pc = "first_pass"
    /\ Pending(work) = {}
    /\ aggregated_stats' = aggregated_stats \o Collect(work)
    /\ hist' = [hist EXCEPT ![tel_id].returned = 1,
                            ![tel_id].stats_pass1 = Collect(work)]
    /\ work' = NoWork
    /\ pc' = "check"
    /\ UNCHANGED <<config, output_file, error, subarray, dl1_tables, tel_id,
                   iterated, aggregated_stats_secondpass, log>>

\* Line 128: first_pass returns its records, in window order.
FirstPassReturns ==
    /\ pc = "first_pass"
    /\ Pending(work) = {}
    /\ aggregated_stats' = Collect(work)
    /\ hist' = [hist EXCEPT ![tel_id].returned = 1,
                            ![tel_id].stats_pass1 = Collect(work)]
    /\ work' = NoWork
    /\ pc' = "check"
    /\ UNCHANGED <<config, output_file, error, subarray, dl1_tables, tel_id,
                   iterated, aggregated_stats_secondpass, log>>

\* Mutant: second_pass is handed the mask of the faulty chunks.
IsValidColumnInverted(stats) == [i \in 1..Len(stats) |-> ~ stats[i].is_valid]

\* The is_valid column of a table of records.
IsValidColumn(stats) == [i \in 1..Len(stats) |-> stats[i].is_valid]

\* np.any(~aggregated_stats["is_valid"].data)
AnyFaulty(stats) == \E i \in 1..Len(stats) : ~ stats[i].is_valid

\* Mutant: the second pass is taken whenever a shift is configured.
NeedsSecondPassNoFaultCheck(stats) == chunk_shift # None

\* Mutant: the second pass is taken whenever a chunk is faulty.
NeedsSecondPassNoShiftCheck(stats) == AnyFaulty(stats)

\* Whether start() takes the second pass (lines 134 and 136).
NeedsSecondPass(stats) == chunk_shift # None /\ AnyFaulty(stats)

\* Mutant: the else of line 150 belongs to the if of line 134.
LogsSkipOuterElse(stats) == chunk_shift = None

\* Whether start() logs that it skips the second pass (lines 134, 150-154).
LogsSkip(stats) == chunk_shift # None /\ ~ AnyFaulty(stats)

\* Lines 133-154: call second_pass, or log that it is skipped, or neither.
CheckChunkShift ==
    /\ pc = "check"
    /\ IF NeedsSecondPass(aggregated_stats)
       THEN /\ work' = [pass |-> 2,
                        windows |-> SecondPassWindows(dl1_tables[tel_id],
                                        IsValidColumn(aggregated_stats)),
                        results |-> <<>>]
            /\ hist' = [hist EXCEPT ![tel_id].second_pass = @ + 1]
            /\ pc' = "second_pass"
            /\ log' = log
       ELSE /\ log' = IF LogsSkip(aggregated_stats) THEN Append(log, tel_id) ELSE log
            /\ pc' = "write"
            /\ UNCHANGED <<work, hist>>
    /\ UNCHANGED <<config, output_file, error, subarray, dl1_tables, tel_id,
                   iterated, aggregated_stats, aggregated_stats_secondpass>>

\* Mutant: start() raises when the second pass leaves a chunk invalid.
SecondPassReturnsRaising ==
    /\ pc = "second_pass"
    /\ Pending(work) = {}
    /\ aggregated_stats_secondpass' = Collect(work)
    /\ hist' = [hist EXCEPT ![tel_id].returned = 2,
                            ![tel_id].stats_pass2 = Collect(work)]
    /\ work' = NoWork
    /\ IF AnyFaulty(Collect(work))
       THEN Abort("ValueError")
       ELSE pc' = "merge" /\ error' = error
    /\ UNCHANGED <<config, output_file, subarray, dl1_tables, tel_id,
                   iterated, aggregated_stats, log>>

\* Mutant: second_pass marks the first-pass records it went over as valid.
SecondPassReturnsPatching ==
    /\ pc = "second_pass"
    /\ Pending(work) = {}
    /\ aggregated_stats_secondpass' = Collect(work)
    /\ aggregated_stats' = [i \in 1..Len(aggregated_stats) |->
                               [aggregated_stats[i] EXCEPT !.is_valid = TRUE]]
    /\ hist' = [hist EXCEPT ![tel_id].returned = 2,
                            ![tel_id].stats_pass2 = Collect(work)]
    /\ work' = NoWork
    /\ pc' = "merge"
    /\ UNCHANGED <<config, output_file, error, subarray, dl1_tables, tel_id,
                   iterated, log>>

\* Line 138: second_pass returns its records, in window order.
SecondPassReturns ==
    /\ pc = "second_pass"
    /\ Pending(work) = {}
    /\ aggregated_stats_secondpass' = Collect(work)
    /\ hist' = [hist EXCEPT ![tel_id].returned = 2,
                            ![tel_id].stats_pass2 = Collect(work)]
    /\ work' = NoWork
    /\ pc' = "merge"
    /\ UNCHANGED <<config, output_file, error, subarray, dl1_tables, tel_id,
                   iterated, aggregated_stats, log>>

\* Mutant: the stacked table is written as stacked.
MergedStatsUnsorted(pass1, pass2) == vstack(pass1, pass2)

\* Mutant: the second pass replaces the invalid first-pass records.
MergedStatsReplacing(pass1, pass2) ==
    LET Valid(r) == r.is_valid
    IN  SortByTimeStart(vstack(SelectSeq(pass1, Valid), pass2))

\* Lines 145-149: stack both passes and sort by time_start.
MergedStats(pass1, pass2) == SortByTimeStart(vstack(pass1, pass2))

\* Mutant: the merge does not wait for second_pass to return.
MergeEarly ==
    /\ pc \in {"second_pass", "merge"}
    /\ aggregated_stats' = MergedStats(aggregated_stats, aggregated_stats_secondpass)
    /\ hist' = [hist EXCEPT ![tel_id].merges = @ + 1]
    /\ work' = NoWork
    /\ pc' = "write"
    /\ UNCHANGED <<config, output_file, error, subarray, dl1_tables, tel_id,
                   iterated, aggregated_stats_secondpass, log>>

Merge ==
    /\ pc = "merge"
    /\ aggregated_stats' = MergedStats(aggregated_stats, aggregated_stats_secondpass)
    /\ hist' = [hist EXCEPT ![tel_id].merges = @ + 1]
    /\ pc' = "write"
    /\ UNCHANGED <<config, output_file, error, subarray, dl1_tables, tel_id,
                   iterated, aggregated_stats_secondpass, work, log>>

\* write_table refuses a node that exists unless it may overwrite it.
WriteRefused(node) == node.exists /\ ~ overwrite

\* Lines 155-161: write the telescope's table; the loop goes on.
WriteTable ==
    /\ pc = "write"
    /\ IF WriteRefused(output_file[NodeName(tel_id)])
       THEN /\ Abort("OSError")
            /\ UNCHANGED <<output_file, iterated, hist, tel_id>>
       ELSE /\ output_file' = [output_file EXCEPT ![NodeName(tel_id)] =
                   [exists |-> TRUE, rows |-> aggregated_stats, by |-> "this run"]]
            /\ hist' = [hist EXCEPT ![tel_id].writes = @ + 1]
            /\ iterated' = Append(iterated, tel_id)
            /\ tel_id' = None
            /\ pc' = "start"
            /\ error' = error
    /\ UNCHANGED <<config, subarray, dl1_tables, aggregated_stats,
                   aggregated_stats_secondpass, work, log>>

\* The loop of line 126 is exhausted: start() returns.
StartReturns ==
    /\ pc = "start"
    /\ DOMAIN dl1_tables \subseteq Done(iterated)
    /\ pc' = "finish"
    /\ UNCHANGED <<config, output_file, error, subarray, dl1_tables, tel_id,
                   iterated, aggregated_stats, aggregated_stats_secondpass, work,
                   log, hist>>

\* Lines 163-169: finish() logs where the data went; the tool exits.
Finish ==
    /\ pc = "finish"
    /\ pc' = "exited"
    /\ UNCHANGED <<config, output_file, error, subarray, dl1_tables, tel_id,
                   iterated, aggregated_stats, aggregated_stats_secondpass, work,
                   log, hist>>

Next ==
    \/ SetupCheckPaths
    \/ SetupLoad
    \/ \E t \in Tels : CallFirstPass(t)
    \/ \E c \in Pending(work) : ChunkDone(c)
    \/ AggregatorRaises
    \/ FirstPassReturns
    \/ CheckChunkShift
    \/ SecondPassReturns
    \/ Merge
    \/ WriteTable
    \/ StartReturns
    \/ Finish

Spec == Init /\ [][Next]_vars

\* Tool.run takes setup(), start() and finish() to their end: a step that can
\* be taken is taken.
SpecFair == Init /\ [][Next]_vars /\ WF_vars(Next)

\* --------------------------------------------- every chunk length at all
\* The configured chunk lengths, those the windower refuses among them.
ChunkLengths == (-1)..MaxChunkLength

WindowerInit ==
    /\ input_url \in InputPaths
    /\ output_path \in OutputPaths
    /\ overwrite \in BOOLEAN
    /\ allowed_tels \in AllowedTels
    /\ chunk_length \in ChunkLengths
    /\ chunk_shift \in {None} \cup 0..(chunk_length - 1)
    /\ sort_kind \in {"stable", "unstable"}
    /\ parallel \in BOOLEAN
    /\ input_file \in InputFiles
    /\ \E old \in BOOLEAN :
          output_file = [n \in {NodeName(t) : t \in Tels} |->
                            IF old THEN OldNode ELSE NoNode]
    /\ ProgramInit

NextWindower ==
    \/ Next
    \/ \E t \in Tels : WindowerRaises(t)

SpecWindower == WindowerInit /\ [][NextWindower]_vars

\* ------------------------------------------------ the classifier's inputs
\* Images whose pixels hold any reading or none: chunks with some, all or no
\* outlier pixels, and with events that are not usable.
AllImages == [Pixels -> Readings \cup {NaN}]

ClassifierInit ==
    /\ input_url \in InputPaths
    /\ output_path \in OutputPaths
    /\ overwrite \in BOOLEAN
    /\ allowed_tels = [none |-> TRUE, ids |-> {}]
    /\ chunk_length \in 1..MaxChunkLength
    /\ chunk_shift \in {None} \cup 0..(chunk_length - 1)
    /\ sort_kind = "stable"
    /\ parallel = FALSE
    /\ \E table \in Tables(MaxClassifierEvents, AllImages) :
          input_file = [t \in Tels |-> IF t = 1 THEN table ELSE <<>>]
    /\ \E old \in BOOLEAN :
          output_file = [n \in {NodeName(t) : t \in Tels} |->
                            IF old THEN OldNode ELSE NoNode]
    /\ ProgramInit

SpecClassifier == ClassifierInit /\ [][Next]_vars

\* ------------------------------------------------- the recovery example
\* A table of 100 events, chunk length 20, chunk shift 10; in telescope 1's
\* table the events 40..49 (counted from 0, all in chunk 2) hold extreme
\* readings in every pixel, telescope 2's table holds nominal readings only.
ExampleEvents == 100
ExampleChunkLength == 20
ExampleChunkShift == 10
ExampleOutliers == 40..49

ExampleTable(outliers) ==
    [i \in 1..ExampleEvents |->
        [time |-> i,
         image |-> [p \in Pixels |-> IF (i - 1) \in outliers THEN 9 ELSE 0]]]

ExampleInit ==
    /\ input_url \in InputPaths
    /\ output_path \in OutputPaths
    /\ overwrite \in BOOLEAN
    /\ allowed_tels \in AllowedTels
    /\ chunk_length = ExampleChunkLength
    /\ chunk_shift = ExampleChunkShift
    /\ sort_kind \in {"stable", "unstable"}
    /\ parallel \in BOOLEAN
    /\ input_file = [t \in Tels |-> IF t = 1 THEN ExampleTable(ExampleOutliers)
                                              ELSE ExampleTable({})]
    /\ \E old \in BOOLEAN :
          output_file = [n \in {NodeName(t) : t \in Tels} |->
                            IF old THEN OldNode ELSE NoNode]
    /\ ProgramInit

SpecExample == ExampleInit /\ [][Next]_vars

\* ================================================================ claims
\* The node of telescope t in the output file, and whether this run wrote it.
Node(t) == output_file[NodeName(t)]

WrittenNow(t) == Node(t).by = "this run"

FirstPassFaulty(t) ==
    \E i \in 1..Len(hist[t].stats_pass1) : ~ hist[t].stats_pass1[i].is_valid

\* The iteration of telescope t is past the decision of lines 134-136.
Decided(t) == hist[t].returned >= 1 /\ ~ (tel_id = t /\ pc = "check")

\* C1: for every telescope, second_pass is invoked if and only if chunk_shift
\* is configured and at least one record returned by first_pass is invalid;
\* before first_pass has returned and in every other case it is not invoked.
C1_SecondPassIff ==
    \A t \in Tels :
        /\ hist[t].second_pass \in {0, 1}
        /\ ~ Decided(t) => hist[t].second_pass = 0
        /\ Decided(t) =>
              (hist[t].second_pass = 1 <=> (chunk_shift # None /\ FirstPassFaulty(t)))

\* One telescope took the second pass, another was written without it although
\* a shift is configured.
C1_Witness ==
    \E t, u \in Tels :
        /\ hist[t].second_pass = 1 /\ FirstPassFaulty(t)
        /\ WrittenNow(u) /\ hist[u].second_pass = 0 /\ Len(hist[u].stats_pass1) > 0
        /\ chunk_shift # None

NonDecreasing(rows) ==
    \A i, j \in 1..Len(rows) : i < j => rows[i].time_start <= rows[j].time_start

\* C2: the table written for a telescope is non-decreasing in time_start, in
\* every mode (no chunk_shift, second pass skipped, second pass run and merged).
C2_OutputSorted ==
    \A t \in Tels : WrittenNow(t) => NonDecreasing(Node(t).rows)

\* A merged table was written in which a second-pass record stands before a
\* first-pass record.
C2_Witness ==
    \E t \in Tels :
        /\ WrittenNow(t) /\ hist[t].merges = 1
        /\ \E i, j \in 1..Len(Node(t).rows) :
              /\ i < j
              /\ Node(t).rows[i].pass = 2
              /\ Node(t).rows[j].pass = 1

Count(rows, r) == Cardinality({i \in 1..Len(rows) : rows[i] = r})

Range(rows) == {rows[i] : i \in 1..Len(rows)}

\* `rows` holds exactly the records of a and of b, each as often as a and b do.
IsUnion(rows, a, b) ==
    /\ Len(rows) = Len(a) + Len(b)
    /\ \A r \in Range(rows) \cup Range(a) \cup Range(b) :
          Count(rows, r) = Count(a, r) + Count(b, r)

\* C3: when the second pass ran, the merged table is the multiset union of the
\* first-pass and the second-pass records: nothing is removed, deduplicated or
\* altered, and every invalid first-pass record is still in it.
C3_MergeIsUnion ==
    \A t \in Tels :
        hist[t].merges = 1 =>
            LET merged == IF WrittenNow(t) THEN Node(t).rows
                          ELSE aggregated_stats
            IN  /\ tel_id = t \/ WrittenNow(t) \/ pc = "exited"
                /\ (tel_id = t \/ WrittenNow(t)) =>
                      /\ IsUnion(merged, hist[t].stats_pass1, hist[t].stats_pass2)
                      /\ \A i \in 1..Len(hist[t].stats_pass1) :
                            ~ hist[t].stats_pass1[i].is_valid =>
                                Count(merged, hist[t].stats_pass1[i]) >= 1

\* A merged table was written that holds an invalid first-pass record and a
\* second-pass record of the same time_start.
C3_Witness ==
    \E t \in Tels :
        /\ WrittenNow(t) /\ hist[t].merges = 1
        /\ \E i, j \in 1..Len(Node(t).rows) :
              /\ Node(t).rows[i].pass = 1
              /\ ~ Node(t).rows[i].is_valid
              /\ Node(t).rows[j].pass = 2
              /\ Node(t).rows[j].time_start = Node(t).rows[i].time_start

\* C4: without chunk_shift the table written for a telescope is exactly the
\* first-pass result, whatever the number of invalid first-pass chunks; no
\* second pass and no merge takes place.
C4_SinglePass ==
    \A t \in Tels :
        chunk_shift = None =>
            /\ hist[t].second_pass = 0 /\ hist[t].merges = 0
            /\ WrittenNow(t) => Node(t).rows = hist[t].stats_pass1

\* Without chunk_shift a table with two records, one of them invalid, was written.
C4_Witness ==
    \E t \in Tels :
        /\ chunk_shift = None /\ WrittenNow(t)
        /\ Len(Node(t).rows) >= 2
        /\ FirstPassFaulty(t)

CeilDiv(a, b) == (a + b - 1) \div b

\* The windows cover [0, L) exactly: each index lies in one and only one window.
ExactCover(windows, L) ==
    /\ \A i \in 1..Len(windows) :
          windows[i].start >= 0 /\ windows[i].length >= 1
          /\ windows[i].start + windows[i].length <= L
    /\ \A x \in 0..(L - 1) :
          Cardinality({i \in 1..Len(windows) :
              windows[i].start <= x /\ x < windows[i].start + windows[i].length}) = 1

\* C5: for every chunk length N >= 1 and every table length L the first pass
\* works on exactly ceil(L/N) chunks, chunk i starts at i*N, the chunks cover
\* [0, L) without gap or overlap, and only the last chunk may be shorter than N;
\* first_pass returns one record per chunk.
C5_FirstPassCover ==
    /\ work.pass = 1 =>
          LET L == Len(dl1_tables[tel_id])
              N == chunk_length
              W == work.windows
          IN  /\ Len(W) = CeilDiv(L, N)
              /\ \A i \in 1..Len(W) : W[i].start = (i - 1) * N
              /\ \A i \in 1..(Len(W) - 1) : W[i].length = N
              /\ ExactCover(W, L)
    /\ \A t \in Tels :
          hist[t].returned >= 1 =>
              Len(hist[t].stats_pass1) = CeilDiv(Len(dl1_tables[t]), chunk_length)

\* first_pass returned the records of a table whose length is no multiple of
\* the chunk length: the last of its two chunks had a single event.
C5_Witness ==
    \E t \in Tels :
        /\ hist[t].returned >= 1
        /\ chunk_length = 2 /\ Len(dl1_tables[t]) = 3
        /\ Len(hist[t].stats_pass1) = 2
        /\ hist[t].stats_pass1[2].time_start = hist[t].stats_pass1[2].time_end

\* The coordinator's state for telescope t, read off what has happened to it.
State(t) ==
    IF hist[t].writes >= 1 THEN "Done"
    ELSE IF hist[t].first_pass = 0 THEN "Idle"
    ELSE IF hist[t].returned = 0 THEN "FirstPassRunning"
    ELSE IF hist[t].second_pass = 0 THEN "FirstPassDone"
    ELSE IF hist[t].merges = 0 THEN "SecondPassRunning"
    ELSE "Merged"

Transitions ==
    {<<"Idle", "FirstPassRunning">>, <<"FirstPassRunning", "FirstPassDone">>,
     <<"FirstPassDone", "SecondPassRunning">>, <<"SecondPassRunning", "Merged">>,
     <<"FirstPassDone", "Done">>, <<"Merged", "Done">>}

\* Every window of the first pass over t's whole table has its record.
FirstPassComplete(t) ==
    /\ hist[t].returned >= 1
    /\ Len(hist[t].stats_pass1) = CeilDiv(Len(dl1_tables[t]), chunk_length)

C6_Order ==
    \A t \in Tels :
        /\ hist[t].second_pass >= 1 => FirstPassComplete(t)
        /\ hist[t].merges >= 1 => hist[t].returned = 2
        /\ WrittenNow(t) <=> State(t) = "Done"

C6_Step ==
    \A t \in Tels :
        /\ State(t)' # State(t) => <<State(t), State(t)'>> \in Transitions
        /\ hist[t].second_pass' > hist[t].second_pass =>
              FirstPassComplete(t) /\ pc = "check" /\ work = NoWork
        /\ hist[t].merges' > hist[t].merges =>
              hist[t].returned = 2 /\ pc = "merge" /\ work = NoWork
        /\ Node(t)' # Node(t) => State(t) # "Done" /\ State(t)' = "Done"

\* C6: for each telescope the coordinator only takes the transitions Idle ->
\* FirstPassRunning -> FirstPassDone -> [SecondPassRunning -> Merged] -> Done:
\* the second pass starts only after the first pass over the whole table has
\* returned, the merge only after the second pass has returned, Done is entered
\* only from FirstPassDone or Merged, and the table is written only on entering
\* Done.
C6_StateMachine == [] C6_Order /\ [][C6_Step]_vars

\* One telescope reached Done through Merged, another straight from
\* FirstPassDone.
C6_Witness ==
    \E t, u \in Tels :
        /\ State(t) = "Done" /\ hist[t].merges = 1
        /\ State(u) = "Done" /\ hist[u].second_pass = 0

\* The second pass of telescope t has returned a record that is invalid.
ExhaustedRecovery(t) ==
    /\ hist[t].returned = 2
    /\ \E i \in 1..Len(hist[t].stats_pass2) : ~ hist[t].stats_pass2[i].is_valid

InvalidKept(t, stats) ==
    \A i \in 1..Len(stats) :
        ~ stats[i].is_valid => Count(Node(t).rows, stats[i]) >= 1

C7_NoError ==
    \A t \in Tels :
        ExhaustedRecovery(t) =>
            /\ hist[t].first_pass = 1 /\ hist[t].second_pass = 1
            /\ hist[t].merges <= 1 /\ hist[t].writes <= 1
            /\ ~ hist[t].raised
            /\ \/ error = "none"
               \/ error = "OSError" /\ tel_id = t /\ WriteRefused(Node(t))
               \/ tel_id # t /\ WrittenNow(t)
            /\ WrittenNow(t) =>
                  /\ InvalidKept(t, hist[t].stats_pass1)
                  /\ InvalidKept(t, hist[t].stats_pass2)
            /\ (pc \in {"finish", "exited"} /\ error = "none") => WrittenNow(t)

C7_Step ==
    \A t \in Tels :
        (ExhaustedRecovery(t) /\ tel_id = t /\ ~ WriteRefused(Node(t))) =>
            /\ error' = "none"
            /\ pc' \in {"merge", "write", "start"}
            /\ pc = "write" => WrittenNow(t)'

NothingDone ==
    /\ ~ subarray.loaded
    /\ dl1_tables = <<>>
    /\ work = NoWork
    /\ log = <<>>
    /\ \A t \in Tels : hist[t] = NoHist /\ ~ WrittenNow(t)

\* C8: when input_url equals output_path, setup() raises a
\* ToolConfigurationError before the subarray is loaded, before any table is
\* read, before first_pass is called and before anything is written; the run
\* is aborted.  The error is raised in no other case.
C8_PathCollision ==
    /\ input_url = output_path =>
          /\ pc \in {"setup", "exited"}
          /\ pc = "exited" => error = "ToolConfigurationError"
          /\ NothingDone
    /\ error = "ToolConfigurationError" =>
          input_url = output_path /\ pc = "exited" /\ NothingDone

\* The run was aborted for the path collision although the input holds events
\* and the output nodes exist.
C8_Witness ==
    /\ error = "ToolConfigurationError" /\ pc = "exited"
    /\ \E t \in Tels : Len(input_file[t]) > 0 /\ Node(t).exists

C9_Fatal ==
    \A t \in Tels :
        hist[t].raised =>
            /\ pc = "exited" /\ error = "DataError" /\ tel_id = t
            /\ hist[t].first_pass = 1 /\ hist[t].second_pass <= 1
            /\ hist[t].returned = 0 => hist[t].second_pass = 0
            /\ hist[t].merges = 0 /\ hist[t].writes = 0
            /\ ~ WrittenNow(t)

C9_Step ==
    \A t \in Tels :
        /\ hist[t].raised => hist[t]' = hist[t] /\ Node(t)' = Node(t)
        /\ hist[t].raised' /\ ~ hist[t].raised =>
              Node(t)' = Node(t) /\ pc' = "exited"

\* C9: a failure raised by first_pass or second_pass is fatal for that
\* telescope's run and is not retried or recovered: after it no pass is invoked
\* on the telescope's table, no merge happens and no table, partial or merged,
\* is written for the telescope.
C9_AggregatorFailure == [] C9_Fatal /\ [][C9_Step]_vars

\* The second pass failed after it had computed a record; the first-pass
\* records were at hand and were not written.
C9_Witness ==
    \E t \in Tels :
        /\ hist[t].raised /\ hist[t].second_pass = 1
        /\ DOMAIN work.results # {}
        /\ Len(hist[t].stats_pass1) >= 2
        /\ ~ WrittenNow(t)

\* The records of the windows ws of a table, as one pass computes them.
PassOf(table, ws, pass) == [i \in 1..Len(ws) |-> AggregateChunk(table, ws[i], pass)]

\* The table of statistics as a function of one event table and the
\* configuration.
StatisticsOf(table) ==
    LET p1 == PassOf(table, Windows(Len(table), chunk_length, 0), 1)
        valid == [i \in 1..Len(p1) |-> p1[i].is_valid]
    IN  IF chunk_shift # None /\ \E i \in 1..Len(p1) : ~ p1[i].is_valid
        THEN SortByTimeStart(p1 \o PassOf(table, SecondPassWindows(table, valid), 2))
        ELSE p1

C10_Function ==
    \A t \in Tels :
        WrittenNow(t) =>
            /\ Node(t).rows = StatisticsOf(input_file[t])
            /\ \A u \in Tels :
                  (WrittenNow(u) /\ input_file[u] = input_file[t]) =>
                      Node(u).rows = Node(t).rows

C10_Step ==
    \A t \in Tels : WrittenNow(t) => Node(t)' = Node(t)

\* C10: the table written for telescope t is a function of t's own event table
\* and the configuration only: it is the same whatever the order in which the
\* telescopes are taken and whatever the other telescopes' tables hold, and
\* once written it is not changed by another telescope's iteration.
C10_Independent == [] C10_Function /\ [][C10_Step]_vars

\* Telescope 2 was taken before telescope 1; the one took the second pass, the
\* other did not, and both tables are written.
C10_Witness ==
    /\ Len(iterated) = 2 /\ iterated[1] > iterated[2]
    /\ \E t, u \in Tels :
          /\ hist[t].merges = 1 /\ hist[u].second_pass = 0
          /\ Len(Node(t).rows) > 0 /\ Len(Node(u).rows) > 0

EventsOf(t, w) == SubSeq(dl1_tables[t], w.start + 1, w.start + w.length)

\* What the classifier has to decide for a record r of the events ev.
ShouldBeInvalid(r, ev) ==
    LET n_outlier == Cardinality({p \in Pixels : r.outlier[p]})
        n_usable == Cardinality({i \in 1..Len(ev) :
                        \E p \in Pixels : ev[i].image[p] # NaN})
    IN  \/ n_outlier * ThresholdDen > ThresholdNum * Cardinality(Pixels)
        \/ n_usable < MinEvents

\* C12: the validity classifier is total: for every chunk, whatever its
\* readings (missing ones included), the record's is_valid is a boolean, and it
\* is false exactly when the fraction of outlier pixels strictly exceeds the
\* threshold or the chunk has fewer usable events than the minimum.
C12_Classifier ==
    \A c \in DOMAIN work.results :
        LET r == work.results[c]
            ev == EventsOf(tel_id, work.windows[c])
        IN  /\ r.is_valid \in BOOLEAN
            /\ r.outlier \in [Pixels -> BOOLEAN]
            /\ r.is_valid = FALSE <=> ShouldBeInvalid(r, ev)

\* Records at the edges of the policy have been classified: one whose outlier
\* fraction equals the threshold (valid), one with no usable event (invalid).
C12_Witness ==
    \E t \in Tels :
        \E i, j \in 1..Len(hist[t].stats_pass1) :
            /\ Cardinality({p \in Pixels : hist[t].stats_pass1[i].outlier[p]}) = 1
            /\ hist[t].stats_pass1[i].is_valid
            /\ \A p \in Pixels : hist[t].stats_pass1[j].mean[p] = NaN
            /\ ~ hist[t].stats_pass1[j].is_valid

\* How often the "Skipping second pass" event names telescope t.
Skips(t) == Cardinality({i \in 1..Len(log) : log[i] = t})

\* C13: the "No faulty chunks found ... Skipping second pass" event is logged
\* for a telescope exactly when chunk_shift is configured and every first-pass
\* record is valid, and then once; it is not logged without chunk_shift, nor
\* for a telescope whose second pass runs, nor before first_pass has returned.
C13_SkipLogged ==
    \A t \in Tels :
        /\ Skips(t) \in {0, 1}
        /\ ~ Decided(t) => Skips(t) = 0
        /\ Decided(t) =>
              (Skips(t) = 1 <=> (chunk_shift # None /\ ~ FirstPassFaulty(t)))
        /\ chunk_shift = None => Skips(t) = 0
        /\ hist[t].second_pass >= 1 => Skips(t) = 0

\* The skip was logged for one telescope, with records that are all valid,
\* while another telescope took the second pass and was not logged.
C13_Witness ==
    \E t, u \in Tels :
        /\ Skips(t) = 1 /\ Len(hist[t].stats_pass1) > 0
        /\ hist[u].second_pass = 1 /\ WrittenNow(u) /\ Skips(u) = 0

Indices(w) == w.start..(w.start + w.length - 1)

\* The event indices of first-pass chunk i of a table of L events.
ChunkIndices(i, L) == ((i - 1) * chunk_length)..(Min(i * chunk_length, L) - 1)

\* An index at which a window of the shifted windowing may begin or end.
ShiftedBoundary(x, L) ==
    \/ x = 0
    \/ x = L
    \/ x >= chunk_shift /\ (x - chunk_shift) % chunk_length = 0

WindowerInvoked ==
    \/ pc = "start" /\ pc' \notin {"start", "finish"}
    \/ pc = "check" /\ pc' = "second_pass"

\* A ConfigurationError is only ever raised for a chunk length of zero or less,
\* and no window is made with such a chunk length.
C16_OnlyIf ==
    /\ error = "ConfigurationError" => chunk_length <= 0
    /\ chunk_length <= 0 =>
          /\ work = NoWork
          /\ \A t \in Tels : hist[t].first_pass = 0 /\ hist[t].stats_pass1 = <<>>

\* An invocation of the windower fails with a ConfigurationError when the chunk
\* length is zero or less, and otherwise raises nothing and yields windows of
\* one to N events.
C16_Step ==
    WindowerInvoked =>
        IF chunk_length <= 0
        THEN pc' = "exited" /\ error' = "ConfigurationError"
        ELSE /\ error' = "none"
             /\ pc' \in {"first_pass", "second_pass"}
             /\ \A k \in 1..Len(work'.windows) :
                   work'.windows[k].length \in 1..chunk_length

C17_OrderFree ==
    /\ \A c \in DOMAIN work.results :
          work.results[c] = AggregateChunk(dl1_tables[tel_id], work.windows[c], work.pass)
    /\ \A t \in Tels :
          /\ hist[t].returned >= 1 =>
                hist[t].stats_pass1 = PassOf(dl1_tables[t], FirstPassWindows(dl1_tables[t]), 1)
          /\ hist[t].returned = 2 =>
                hist[t].stats_pass2 =
                    PassOf(dl1_tables[t],
                           SecondPassWindows(dl1_tables[t], IsValidColumn(hist[t].stats_pass1)),
                           2)
          /\ WrittenNow(t) => Node(t).rows = StatisticsOf(dl1_tables[t])

\* The merge starts only when no chunk of either pass is outstanding: both
\* passes have returned all their records, and these are what is merged.
C17_MergeStep ==
    \A t \in Tels :
        hist'[t].merges # hist[t].merges =>
            /\ pc = "merge" /\ tel_id = t
            /\ work = NoWork
            /\ hist[t].returned = 2
            /\ Len(hist[t].stats_pass1) = Len(FirstPassWindows(dl1_tables[t]))
            /\ Len(hist[t].stats_pass2) =
                  Len(SecondPassWindows(dl1_tables[t], IsValidColumn(hist[t].stats_pass1)))
            /\ aggregated_stats = hist[t].stats_pass1
            /\ aggregated_stats_secondpass = hist[t].stats_pass2
            /\ aggregated_stats' =
                  SortByTimeStart(hist[t].stats_pass1 \o hist[t].stats_pass2)

\* C17: the chunks of a pass may complete in any order without changing the
\* records the pass returns or the merged table, and the merge and sort never
\* start before all chunk results of both passes are available.
C17_AnyOrder == [] C17_OrderFree /\ [][C17_MergeStep]_vars

\* On parallel workers the last window of a second pass is finished while the
\* first one is still outstanding, after a first pass of at least two chunks.
C17_Witness ==
    /\ parallel /\ work.pass = 2
    /\ Len(work.windows) >= 2
    /\ Len(work.windows) \in DOMAIN work.results
    /\ 1 \notin DOMAIN work.results
    /\ Len(hist[tel_id].stats_pass1) >= 2

\* The event tables are as loaded, and the first pass run again over the
\* table of a telescope gives the records it gave.
C18_ReadOnly ==
    \A t \in DOMAIN dl1_tables :
        /\ dl1_tables[t] = input_file[t]
        /\ hist[t].returned >= 1 =>
              PassOf(dl1_tables[t], FirstPassWindows(dl1_tables[t]), 1)
                  = hist[t].stats_pass1

\* No step changes an event table or a record: a finished chunk keeps its
\* record while the pass runs, the first-pass records are untouched by the
\* second pass, the merge only stacks and reorders the records of the two
\* passes, and the table is written as merged.
C18_Step ==
    /\ input_file' = input_file
    /\ pc \notin {"setup", "setup_load"} => dl1_tables' = dl1_tables
    /\ (work.pass # 0 /\ work' # NoWork) =>
          /\ work'.pass = work.pass /\ work'.windows = work.windows
          /\ \A c \in DOMAIN work.results :
                c \in DOMAIN work'.results /\ work'.results[c] = work.results[c]
    /\ pc = "first_pass" /\ pc' = "check" => aggregated_stats' = Collect(work)
    /\ pc \in {"check", "second_pass"} => aggregated_stats' = aggregated_stats
    /\ pc = "second_pass" /\ pc' = "merge" =>
          aggregated_stats_secondpass' = Collect(work)
    /\ pc = "merge" =>
          /\ aggregated_stats_secondpass' = aggregated_stats_secondpass
          /\ pc' = "write" =>
                IsUnion(aggregated_stats', aggregated_stats, aggregated_stats_secondpass)
    /\ pc = "write" =>
          /\ aggregated_stats' = aggregated_stats
          /\ pc' = "start" =>
                output_file'[NodeName(tel_id)].rows = aggregated_stats

\* C18: the event table is read-only during both passes, so that the first
\* pass run twice over it gives identical records, and a record once produced
\* is never changed by the second pass or by the merge, which only
\* concatenates and reorders.
C18_WriteOnce == [] C18_ReadOnly /\ [][C18_Step]_vars

\* A table was written whose merge moved a second-pass record in front of a
\* first-pass record; the invalid first-pass record is in it as returned.
C18_Witness ==
    \E t \in Tels :
        /\ WrittenNow(t) /\ hist[t].merges = 1
        /\ Node(t).rows # hist[t].stats_pass1 \o hist[t].stats_pass2
        /\ \E i \in 1..Len(hist[t].stats_pass1) :
              /\ ~ hist[t].stats_pass1[i].is_valid
              /\ Count(Node(t).rows, hist[t].stats_pass1[i]) = 1

\* start() has come to its end without an aggregator failure, and has written
\* one table for every telescope.
C19_WrittenUnlessAggregatorFails ==
    (pc = "exited" /\ subarray.loaded /\ \A t \in Tels : ~ hist[t].raised) =>
        \A t \in DOMAIN dl1_tables : hist[t].writes = 1 /\ WrittenNow(t)

\* The write of a telescope's table is refused: its node is in the output file
\* from before and the tool may not overwrite.
Refused(t) == ~ overwrite /\ Node(t).exists /\ ~ WrittenNow(t)

\* No table is written twice; distinct telescopes have distinct nodes, named
\* by the column and the id padded to three digits; start() ends in an error
\* only by an aggregator failure or a refused write, and when it returns it
\* has written one table for every telescope loaded and none for another.
C19_Written ==
    /\ \A t \in Tels :
          /\ hist[t].writes <= 1
          /\ hist[t].writes = 1 <=> WrittenNow(t)
          /\ WrittenNow(t) => t \in DOMAIN dl1_tables
          /\ NodeName(t) =
                <<"/dl1/monitoring/telescope/", "statistics", "/tel_",
                  t \div 100, (t \div 10) % 10, t % 10>>
          /\ \A u \in Tels : NodeName(t) = NodeName(u) => t = u
    /\ (pc = "exited" /\ subarray.loaded) =>
          /\ error = "DataError" <=> \E t \in Tels : hist[t].raised
          /\ error = "OSError" <=>
                (tel_id \in Tels /\ Refused(tel_id) /\ ~ hist[tel_id].raised)
          /\ error \in {"none", "DataError", "OSError"}
    /\ (pc \in {"finish", "exited"} /\ subarray.loaded /\ error = "none") =>
          \A t \in DOMAIN dl1_tables : hist[t].writes = 1

\* A table is written when the passes of its telescope, and the merge if the
\* second pass ran, are complete; the write changes the node of that telescope
\* alone, and a node written in this run is not changed again.
C19_Step ==
    \A t \in Tels :
        /\ hist'[t].writes # hist[t].writes =>
              /\ pc = "write" /\ tel_id = t /\ work = NoWork
              /\ hist[t].first_pass = 1 /\ hist[t].returned >= 1
              /\ hist[t].second_pass = 1 =>
                    hist[t].returned = 2 /\ hist[t].merges = 1
              /\ hist[t].second_pass = 0 =>
                    hist[t].returned = 1 /\ hist[t].merges = 0
              /\ \A n \in DOMAIN output_file :
                    n # NodeName(t) => output_file'[n] = output_file[n]
        /\ WrittenNow(t) => output_file'[NodeName(t)] = Node(t)

\* C19: for the finite set of telescopes with finite tables, start()
\* terminates; when no aggregator fails and no write is refused it returns
\* having written exactly one table per telescope, each after the telescope's
\* passes (and merge, if any) are complete, each to the node
\* /dl1/monitoring/telescope/<output_column_name>/tel_<id padded to 3 digits>;
\* distinct ids give distinct nodes and no table is overwritten by another
\* telescope of the run.
C19_OneTablePerTelescope ==
    /\ [] C19_Written
    /\ [][C19_Step]_vars
    /\ (pc = "start") ~> (pc = "exited")

\* start() returned after it took telescope 2, then telescope 1, with both
\* passes and the merge for one of them, and wrote the tables of both.
C19_Witness ==
    /\ pc = "exited" /\ error = "none"
    /\ iterated = <<2, 1>>
    /\ WrittenNow(1) /\ WrittenNow(2)
    /\ \E t \in Tels : hist[t].merges = 1

====
